---- MODULE Spec2Model ----
(***************************************************************************)
(* Model of the Gretis ESS Connector webhook core:                         *)
(*   - trigger_webhook_for_doc, the "validate" hook of three doctypes      *)
(*     (hooks.py doc_events), which detects a status change and enqueues   *)
(*     a background job;                                                   *)
(*   - send_request, the background job, which builds the payload, POSTs   *)
(*     it and records the outcome through create_log.                      *)
(* Python None is the value None below; a Python dict is a function from   *)
(* its keys to its values; a dotted import path is the sequence of its     *)
(* components.                                                             *)
(***************************************************************************)
EXTENDS Integers, Sequences, FiniteSets, TLC

VARIABLES
    doc,          \* the document: the fields the last save left in the database
    isNew,        \* TRUE until the document has been inserted (doc.is_new())
    settings,     \* the "GOG Settings" single
    queue,        \* jobs handed to frappe.enqueue and not yet run
    posts,        \* HTTP requests made by requests.post, in order
    webhookLog,   \* "GOG Webhook Log" records, in order of creation
    errorLog,     \* titles of the frappe.log_error records, in order
    lastSave,     \* inputs of the last save that the database does not keep
    running,      \* the jobs workers have taken and the calls of send_request in flight
    lastRun,      \* the last call of send_request, or run of a job, that ended
    nSaves,       \* number of saves so far
    nInvocations  \* direct calls of send_request so far

vars == <<doc, isNew, settings, queue, posts, webhookLog, errorLog,
          lastSave, running, lastRun, nSaves, nInvocations>>

----------------------------------------------------------------------------
(* Bounds of the model *)

MaxSaves == 2

MaxQueue == 2

MaxInvocations == 1

MaxWorkers == 2

----------------------------------------------------------------------------
(* Values *)

None == "None"

Truthy(v) == v \notin {None, ""}

HookedDoctypes == {"Attendance Request", "Leave Application", "Expense Claim"}

Doctypes == HookedDoctypes \cup {"Shift Request"}

\* values a save gives the two status fields; an Expense Claim is decided in
\* approval_status and keeps its payment state in status, the other doctypes
\* are decided in status
StatusValues(doctype) ==
    IF doctype = "Expense Claim"
    THEN {"Unpaid", "Rejected"}
    ELSE {"Open", "Approved", "Rejected"}

ApprovalValues(doctype) ==
    IF doctype = "Expense Claim"
    THEN {"Draft", "Approved", "Rejected"}
    ELSE {None, "Approved"}

Docstatuses == {0, 1, 2}

DocName(doctype) ==
    CASE doctype = "Attendance Request" -> "HR-ARQ-0001"
      [] doctype = "Leave Application"  -> "HR-LAP-0001"
      [] doctype = "Expense Claim"      -> "HR-EXP-0001"
      [] OTHER                          -> "HR-SHR-0001"

\* the documents of a doctype: the fields the handler reads
DocumentsOf(doctype) ==
    { [doctype |-> doctype, name |-> DocName(doctype), docstatus |-> ds,
       status |-> st, approval_status |-> ap,
       employee |-> "HR-EMP-0001", title |-> "Travel",
       from_date |-> "2024-01-15", explanation |-> "Forgot to punch"] :
        ds \in Docstatuses, st \in StatusValues(doctype),
        ap \in ApprovalValues(doctype) }

Documents == UNION {DocumentsOf(dt) : dt \in Doctypes}

SettingsValues ==
    { [enable_webhooks |-> c[1], webhook_url |-> c[2], webhook_secret |-> c[3]] :
        c \in {<<TRUE, "https://a.example/hook", "s3cr3t-a">>,
               <<FALSE, "https://a.example/hook", "s3cr3t-a">>,
               <<TRUE, "https://b.example/hook", "s3cr3t-b">>} }

\* what an HTTP exchange can come to: an exception of requests.post
\* (exc /= None) or a response with a status code and a body
Replies ==
    { [exc |-> e, status_code |-> 0, text |-> ""] : e \in {"Timeout"} }
    \cup
    { [exc |-> None, status_code |-> r[1], text |-> r[2]] :
        r \in { <<101, "">>, <<200, "OK">>, <<304, "">>,
                <<400, "Bad Request">>, <<500, "Internal Server Error">> } }

\* steps of trigger_webhook_for_doc that call into the host and may raise
TriggerSteps == {"is_new", "get_doc_before_save", "get_single", "get_password", "enqueue"}

\* what the host does during a save: <<is the prior snapshot there, the step
\* that raises if it is reached (None: no step raises), does frappe.log_error
\* raise when the except branch calls it>>; the except branch is the same
\* for every step, and frappe.log_error raising is drawn for the last one
SaveEnvironments ==
    {<<TRUE, None, FALSE>>, <<FALSE, None, FALSE>>}
    \cup {<<TRUE, step, FALSE>> : step \in TriggerSteps}
    \cup {<<TRUE, "enqueue", TRUE>>}

----------------------------------------------------------------------------
(* Import paths *)

\* the modules of the app, by file
ModulesOnDisk ==
    { <<"gretis_ess_connector", "hooks">>,
      <<"gretis_ess_connector", "gog_webhook_handler">> }

\* the functions a module defines
ModuleFunctions(module) ==
    IF module = <<"gretis_ess_connector", "gog_webhook_handler">>
    THEN {"create_log", "trigger_webhook_for_doc", "send_request"}
    ELSE {}

\* hooks.py: doc_events[doctype]["validate"]
doc_events(doctype) ==
    IF doctype \in HookedDoctypes
    THEN <<"gretis_ess_connector", "gog_webhook_handler", "trigger_webhook_for_doc">>
    ELSE <<>>

\* the first argument of frappe.enqueue in trigger_webhook_for_doc
EnqueuedMethod ==
    <<"gretis_ess_connector", "gretis_ess_connector", "gog_webhook_handler", "send_request">>

\* the path under which send_request can be imported
SendRequestPath == <<"gretis_ess_connector", "gog_webhook_handler", "send_request">>

\* frappe.get_attr in the worker: import the module, then look the name up
Resolves(path) ==
    /\ Len(path) >= 2
    /\ SubSeq(path, 1, Len(path) - 1) \in ModulesOnDisk
    /\ path[Len(path)] \in ModuleFunctions(SubSeq(path, 1, Len(path) - 1))

----------------------------------------------------------------------------
(* trigger_webhook_for_doc *)

\* variant of ConsidersDocument: cancelled documents pass too
ConsidersDocument_NotDraft(d, new) == ~new /\ d.docstatus >= 1

\* the documents the trigger looks at: existing and submitted
ConsidersDocument(d, new) == ~new /\ d.docstatus = 1

\* variant of WebhooksEnabled: the switch is not looked at
WebhooksEnabled_Ignored(s) == TRUE

\* the master switch of the settings
WebhooksEnabled(s) == s.enable_webhooks

\* variant of StatusField: every doctype is decided in status
StatusField_Generic(doctype) == "status"

\* the name of the status field the trigger compares
StatusField(doctype) ==
    IF doctype = "Expense Claim" THEN "approval_status" ELSE "status"

\* variant of StatusChanged: only an approval counts
StatusChanged_ApprovedOnly(old_status, new_status) ==
    new_status /= old_status /\ new_status \in {"Approved"}

\* variant of StatusChanged: the old status is not compared
StatusChanged_NoCompare(old_status, new_status) ==
    new_status \in {"Approved", "Rejected"}

\* the guard of the status change
StatusChanged(old_status, new_status) ==
    new_status /= old_status /\ new_status \in {"Approved", "Rejected"}

\* variant of DocInfo: approval_status is filled from status
DocInfo_StatusTwice(d) ==
    [doctype |-> d.doctype, name |-> d.name, status |-> d.status,
     approval_status |-> d.status, employee |-> d.employee,
     title |-> d.title, from_date |-> d.from_date, explanation |-> d.explanation]

\* the dict handed to the background job
DocInfo(d) ==
    [doctype |-> d.doctype, name |-> d.name, status |-> d.status,
     approval_status |-> d.approval_status, employee |-> d.employee,
     title |-> d.title, from_date |-> d.from_date, explanation |-> d.explanation]

\* settings_info of the enqueue call; get_password returns the stored secret
SettingsInfo(s) == [url |-> s.webhook_url, secret |-> s.webhook_secret]

\* the job frappe.enqueue receives
Job(d, s) ==
    [method |-> EnqueuedMethod, doc_info |-> DocInfo(d), settings_info |-> SettingsInfo(s)]

Quiet == [enqueued |-> <<>>, errors |-> <<>>, raised |-> FALSE, read_settings |-> FALSE]

\* the except branch of the trigger: frappe.log_error writes the record, or
\* raises (log_error), and then its exception leaves the trigger
EnqueueFailed(read, log_error) ==
    [enqueued |-> <<>>,
     errors |-> IF log_error THEN <<>> ELSE <<"GOG Webhook Enqueue Failed">>,
     raised |-> log_error, read_settings |-> read]

\* trigger_webhook_for_doc(d, "validate"): d is the document being saved,
\* new its is_new(), old what get_doc_before_save() returns (<<>> for None, else
\* <<the document as it was>>), s the settings single, fault the step that
\* raises if it is reached (None: no step raises), log_error whether
\* frappe.log_error raises
trigger_webhook_for_doc(d, new, old, s, fault, log_error) ==
    IF fault = "is_new" THEN EnqueueFailed(FALSE, log_error)
    ELSE IF ~ConsidersDocument(d, new) THEN Quiet
    ELSE IF fault = "get_doc_before_save" THEN EnqueueFailed(FALSE, log_error)
    ELSE IF old = <<>> THEN Quiet
    ELSE IF ~StatusChanged(old[1][StatusField(d.doctype)], d[StatusField(d.doctype)]) THEN Quiet
    ELSE IF fault = "get_single" THEN EnqueueFailed(FALSE, log_error)
    ELSE IF ~WebhooksEnabled(s) THEN [Quiet EXCEPT !.read_settings = TRUE]
    ELSE IF fault \in {"get_password", "enqueue"} THEN EnqueueFailed(TRUE, log_error)
    ELSE [enqueued |-> <<Job(d, s)>>, errors |-> <<>>, raised |-> FALSE,
          read_settings |-> TRUE]

----------------------------------------------------------------------------
(* create_log and send_request *)

\* json.dumps(obj, default=str): None becomes null, a string a JSON string;
\* indent only changes the layout of the text
json_dumps(obj, indent) ==
    [indent |-> indent,
     object |-> [k \in DOMAIN obj |->
                    IF obj[k] = None THEN <<"null">> ELSE <<"string", obj[k]>>]]

\* the calls of create_log into the log store that may raise, in order
StoreSteps == {"new_doc", "save", "commit"}

\* the host takes every call of create_log
StoreAccepts == [fault |-> None, log_error |-> FALSE]

\* what the host does during one call of create_log: fault is the step of
\* StoreSteps that raises (None: none does), log_error is TRUE when
\* frappe.log_error, called for that fault, raises too
LogEnvironments ==
    {StoreAccepts} \cup {[fault |-> f, log_error |-> b] : f \in StoreSteps, b \in BOOLEAN}

\* the record of the log that create_log fills in
LogEntry(status, ref, payload, response_text, tb) ==
    [status |-> status,
     reference_doctype |-> ref.doctype,
     reference_name |-> ref.name,
     request_payload |-> json_dumps(payload, 2),
     response |-> response_text,
     error_traceback |-> tb]

\* create_log(status, doc, payload, response_text, tb) under env: the record
\* is there once log.save() has gone through, also when the commit then
\* raises; a fault is handed to frappe.log_error, and only an exception of
\* frappe.log_error leaves create_log
create_log(status, ref, payload, response_text, tb, env) ==
    [entries |-> IF env.fault \in {None, "commit"}
                 THEN <<LogEntry(status, ref, payload, response_text, tb)>>
                 ELSE <<>>,
     errors |-> IF env.fault /= None /\ ~env.log_error
                THEN <<"Failed to Create GOG Webhook Log">> ELSE <<>>,
     raised |-> env.fault /= None /\ env.log_error]

\* variant of DocStatusOf: the status field of the doctype, as in the trigger
DocStatusOf_StatusField(doc_info) ==
    IF doc_info.doctype = "Expense Claim" THEN doc_info.approval_status
    ELSE doc_info.status

\* the value of a key that the dict handed to send_request does not have
Missing == "<missing>"

\* the keys of the doc_info the trigger builds
SnapshotKeys ==
    {"doctype", "name", "status", "approval_status", "employee", "title",
     "from_date", "explanation"}

\* d.get(k): None when the key is absent
Get(d, k) == IF d[k] = Missing THEN None ELSE d[k]

\* d[k] for every k of keys goes through (no KeyError)
HasKeys(d, keys) == \A k \in keys : d[k] /= Missing

\* the status the worker checks again
DocStatusOf(doc_info) ==
    IF Truthy(Get(doc_info, "status")) THEN Get(doc_info, "status")
    ELSE Get(doc_info, "approval_status")

\* the payload before the update of the doctype
BasePayload(doc_info) ==
    ("doctype" :> doc_info.doctype) @@ ("employee" :> doc_info.employee)

\* the keys the update of a doctype reads from doc_info
UpdateKeys(doctype) ==
    CASE doctype = "Attendance Request" -> {"status", "from_date", "explanation"}
      [] doctype = "Leave Application" -> {"status"}
      [] doctype = "Expense Claim" -> {"approval_status", "title"}
      [] OTHER -> {}

\* variant of Payload: an Expense Claim sends status, not approval_status
Payload_GenericStatus(doc_info) ==
    LET base == ("doctype" :> doc_info.doctype) @@ ("employee" :> doc_info.employee)
    IN  CASE doc_info.doctype = "Attendance Request" ->
               ("status" :> doc_info.status) @@ ("from_date" :> doc_info.from_date)
                 @@ ("explanation" :> doc_info.explanation) @@ base
          [] doc_info.doctype = "Leave Application" ->
               ("status" :> doc_info.status) @@ base
          [] doc_info.doctype = "Expense Claim" ->
               ("status" :> doc_info.status) @@ ("title" :> doc_info.title) @@ base
          [] OTHER -> <<>>

\* variant of Payload: every other doctype is sent like a Leave Application
Payload_AnyDoctype(doc_info) ==
    LET base == ("doctype" :> doc_info.doctype) @@ ("employee" :> doc_info.employee)
    IN  CASE doc_info.doctype = "Attendance Request" ->
               ("status" :> doc_info.status) @@ ("from_date" :> doc_info.from_date)
                 @@ ("explanation" :> doc_info.explanation) @@ base
          [] doc_info.doctype = "Expense Claim" ->
               ("approval_status" :> doc_info.approval_status)
                 @@ ("title" :> doc_info.title) @@ base
          [] OTHER -> ("status" :> doc_info.status) @@ base

\* the payload of a doctype; <<>> (the empty dict) stands for "not handled"
Payload(doc_info) ==
    LET base == ("doctype" :> doc_info.doctype) @@ ("employee" :> doc_info.employee)
    IN  CASE doc_info.doctype = "Attendance Request" ->
               ("status" :> doc_info.status) @@ ("from_date" :> doc_info.from_date)
                 @@ ("explanation" :> doc_info.explanation) @@ base
          [] doc_info.doctype = "Leave Application" ->
               ("status" :> doc_info.status) @@ base
          [] doc_info.doctype = "Expense Claim" ->
               ("approval_status" :> doc_info.approval_status)
                 @@ ("title" :> doc_info.title) @@ base
          [] OTHER -> <<>>

Timeout == 15

\* the call of requests.post
PostRequest(settings_info, payload) ==
    [url |-> settings_info.url,
     data |-> json_dumps(payload, 0),
     headers |-> ("Content-Type" :> "application/json")
                   @@ ("x-webhook-secret" :> settings_info.secret),
     timeout |-> Timeout]

\* response.raise_for_status(): TRUE when it raises HTTPError
RaisesForStatus(status_code) ==
    (400 <= status_code /\ status_code < 500) \/ (500 <= status_code /\ status_code < 600)

NoOutcome == [posts |-> <<>>, entries |-> <<>>, errors |-> <<>>, raised |-> FALSE]

\* the except branch of send_request: what create_log raises leaves send_request
DeliveryFailed(ref, payload, request, tb, env) ==
    LET log == create_log("Error", ref, payload, "", tb, env)
    IN  [posts |-> request, entries |-> log.entries, errors |-> log.errors,
         raised |-> log.raised]

\* an exception leaves send_request
Raised == [NoOutcome EXCEPT !.raised = TRUE]

\* send_request gets as far as requests.post with this doc_info
ReachesPost(doc_info) ==
    /\ HasKeys(doc_info, {"doctype", "name"})
    /\ DocStatusOf(doc_info) \in {"Approved", "Rejected"}
    /\ HasKeys(doc_info, {"employee"})
    /\ Payload(doc_info) /= <<>>
    /\ HasKeys(doc_info, UpdateKeys(doc_info.doctype))

\* send_request(doc_info, settings_info); reply is what the endpoint does,
\* envs[1] and envs[2] what the host does during the first and the second
\* call of create_log
send_request(doc_info, settings_info, reply, envs) ==
    LET ref     == [doctype |-> doc_info.doctype, name |-> doc_info.name]
        payload == Payload(doc_info)
        request == PostRequest(settings_info, payload)
    IN  IF ~HasKeys(doc_info, {"doctype", "name"}) THEN Raised
        ELSE IF DocStatusOf(doc_info) \notin {"Approved", "Rejected"} THEN NoOutcome
        ELSE IF ~HasKeys(doc_info, {"employee"})
             THEN DeliveryFailed(ref, <<>>, <<>>, "KeyError", envs[1])
        ELSE IF payload = <<>> THEN NoOutcome
        ELSE IF ~HasKeys(doc_info, UpdateKeys(doc_info.doctype))
             THEN DeliveryFailed(ref, BasePayload(doc_info), <<>>, "KeyError", envs[1])
        ELSE IF reply.exc /= None
             THEN DeliveryFailed(ref, payload, <<request>>, reply.exc, envs[1])
        ELSE IF RaisesForStatus(reply.status_code)
             THEN DeliveryFailed(ref, payload, <<request>>, "HTTPError", envs[1])
        ELSE LET log == create_log("Success", ref, payload, reply.text, "", envs[1])
             IN  IF log.raised
                 THEN LET failed == DeliveryFailed(ref, payload, <<request>>,
                                                   "Exception", envs[2])
                      IN  [posts |-> failed.posts,
                           entries |-> log.entries \o failed.entries,
                           errors |-> log.errors \o failed.errors,
                           raised |-> failed.raised]
                 ELSE [posts |-> <<request>>, entries |-> log.entries,
                       errors |-> log.errors, raised |-> FALSE]

----------------------------------------------------------------------------
(* State machine *)

NoSave ==
    [called |-> FALSE, old_available |-> FALSE, fault |-> None, raised |-> FALSE,
     read_settings |-> FALSE]

NoRun ==
    [called |-> FALSE, via |-> None, method |-> <<>>, loaded |-> FALSE,
     doc_info |-> None, settings_info |-> None, reply |-> None, envs |-> None,
     store_ok |-> FALSE, out |-> NoOutcome]

\* a draft of one of the doctypes, either in the database already or not
\* inserted yet
Draft(doctype) ==
    [doctype |-> doctype, name |-> DocName(doctype), docstatus |-> 0,
     status |-> IF doctype = "Expense Claim" THEN "Draft" ELSE "Open",
     approval_status |-> IF doctype = "Expense Claim" THEN "Draft" ELSE None,
     employee |-> "HR-EMP-0001", title |-> "Travel",
     from_date |-> "2024-01-15", explanation |-> "Forgot to punch"]

Init ==
    /\ doc \in {Draft(dt) : dt \in Doctypes}
    /\ isNew \in BOOLEAN
    /\ settings \in SettingsValues
    /\ queue = <<>>
    /\ posts = <<>>
    /\ webhookLog = <<>>
    /\ errorLog = <<>>
    /\ lastSave = NoSave
    /\ running = <<>>
    /\ lastRun = NoRun
    /\ nSaves = 0
    /\ nInvocations = 0

\* the host runs the "validate" handlers of doc_events for the doctype
RunValidateHook(d, new, old, s, fault, log_error) ==
    IF Resolves(doc_events(d.doctype))
    THEN trigger_webhook_for_doc(d, new, old, s, fault, log_error)
    ELSE Quiet

\* a save of the document with the fields of d: the validate hook runs, and
\* the document is written unless the hook raised
Save(d, old_available, fault, log_error) ==
    LET old == IF ~isNew /\ old_available THEN <<doc>> ELSE <<>>
        out == RunValidateHook(d, isNew, old, settings, fault, log_error)
    IN  /\ nSaves < MaxSaves
        /\ Len(queue) + Len(out.enqueued) <= MaxQueue
        /\ nSaves' = nSaves + 1
        /\ doc' = IF out.raised THEN doc ELSE d
        /\ isNew' = IF out.raised THEN isNew ELSE FALSE
        /\ queue' = queue \o out.enqueued
        /\ errorLog' = errorLog \o out.errors
        /\ lastSave' = [called |-> TRUE,
                        old_available |-> old /= <<>>,
                        fault |-> IF out.errors /= <<>> \/ out.raised THEN fault ELSE None,
                        raised |-> out.raised,
                        read_settings |-> out.read_settings]
        /\ UNCHANGED <<settings, posts, webhookLog, running, lastRun, nInvocations>>

\* an administrator edits the GOG Settings single
UpdateSettings(s) ==
    /\ s /= settings
    /\ settings' = s
    /\ UNCHANGED <<doc, isNew, queue, posts, webhookLog, errorLog,
                   lastSave, running, lastRun, nSaves, nInvocations>>

\* no POST was made, so there is no answer
NoReply == [exc |-> None, status_code |-> 0, text |-> ""]

\* the calls in flight without call k
Others(k) == SubSeq(running, 1, k - 1) \o SubSeq(running, k + 1, Len(running))

\* a call of send_request has come to its end with outcome out, of which the
\* first posted requests were made before
Ended(call, reply, envs, out, posted) ==
    /\ posts' = posts \o SubSeq(out.posts, posted + 1, Len(out.posts))
    /\ webhookLog' = webhookLog \o out.entries
    /\ errorLog' = errorLog \o out.errors
    /\ lastRun' = [called |-> TRUE, via |-> call.via, method |-> call.method,
                    loaded |-> TRUE, doc_info |-> call.doc_info,
                    settings_info |-> call.settings_info, reply |-> reply,
                    envs |-> envs, store_ok |-> envs[1].fault = None, out |-> out]

\* send_request is entered: it runs up to requests.post, where the worker
\* blocks until the endpoint answers or the timeout expires, or to its end
\* when it does not get that far
Begin(call, envs, others) ==
    IF ReachesPost(call.doc_info)
    THEN /\ posts' = posts \o <<PostRequest(call.settings_info, Payload(call.doc_info))>>
         /\ running' = others \o <<[call EXCEPT !.phase = "posted"]>>
         /\ UNCHANGED <<webhookLog, errorLog, lastRun>>
    ELSE /\ running' = others
         /\ Ended(call, NoReply, envs,
                  send_request(call.doc_info, call.settings_info, NoReply, envs), 0)

\* a worker takes job i off the queue (in no particular order)
TakeJob(i) ==
    /\ i \in 1..Len(queue)
    /\ queue' = SubSeq(queue, 1, i - 1) \o SubSeq(queue, i + 1, Len(queue))
    /\ running' = running \o <<[via |-> "queue", method |-> queue[i].method,
                                 doc_info |-> queue[i].doc_info,
                                 settings_info |-> queue[i].settings_info,
                                 phase |-> "taken"]>>
    /\ UNCHANGED <<doc, isNew, settings, posts, webhookLog, errorLog,
                   lastSave, lastRun, nSaves, nInvocations>>

\* the next step of the worker that holds call k: it loads the method of the
\* job it took and enters it, or it gets the answer to its POST and runs
\* send_request to its end
WorkerStep(k, reply, envs) ==
    /\ k \in 1..Len(running)
    /\ IF running[k].phase = "taken"
       THEN IF Resolves(running[k].method)
            THEN Begin(running[k], envs, Others(k))
            ELSE /\ running' = Others(k)
                 /\ lastRun' = [NoRun EXCEPT !.called = TRUE, !.via = "queue",
                                             !.method = running[k].method]
                 /\ UNCHANGED <<posts, webhookLog, errorLog>>
       ELSE /\ running' = Others(k)
            /\ Ended(running[k], reply, envs,
                     send_request(running[k].doc_info, running[k].settings_info,
                                  reply, envs), 1)
    /\ UNCHANGED <<doc, isNew, settings, queue, lastSave, nSaves, nInvocations>>

\* send_request is called with a snapshot that did not come from a save
InvokeSendRequest(doc_info, settings_info, envs) ==
    /\ nInvocations' = nInvocations + 1
    /\ Begin([via |-> "call", method |-> SendRequestPath, doc_info |-> doc_info,
              settings_info |-> settings_info, phase |-> "taken"], envs, running)
    /\ UNCHANGED <<doc, isNew, settings, queue, lastSave, nSaves>>

\* the answers a call in flight can get: none before its POST is made
RepliesTo(call) == IF call.phase = "posted" THEN Replies ELSE {NoReply}

\* the host lets the log store take the record, or makes log.save() raise
PlainEnvs ==
    {<<StoreAccepts, StoreAccepts>>,
     <<[fault |-> "save", log_error |-> FALSE], StoreAccepts>>}

\* the snapshots of the documents, and the same with no status
Snapshots ==
    {DocInfo(d) : d \in Documents}
    \cup {[DocInfo(d) EXCEPT !.status = None] : d \in Documents}

Next ==
    \/ \E d \in DocumentsOf(doc.doctype), env \in SaveEnvironments :
          Save(d, env[1], env[2], env[3])
    \/ \E s \in SettingsValues : UpdateSettings(s)
    \/ \E i \in 1..MaxQueue : TakeJob(i)
    \/ \E k \in 1..Len(running) :
          \E reply \in RepliesTo(running[k]), envs \in PlainEnvs :
             WorkerStep(k, reply, envs)

Spec == Init /\ [][Next]_vars

\* the worker alone: send_request on every snapshot
WorkerInit ==
    /\ Init
    /\ doc = Draft("Leave Application")
    /\ isNew
    /\ settings.enable_webhooks /\ settings.webhook_secret = "s3cr3t-a"

WorkerNext ==
    \/ /\ nInvocations < MaxInvocations
       /\ \E doc_info \in Snapshots, s \in {x \in SettingsValues : x.enable_webhooks} :
             InvokeSendRequest(doc_info, SettingsInfo(s), <<StoreAccepts, StoreAccepts>>)
    \/ \E k \in 1..Len(running) :
          \E reply \in RepliesTo(running[k]), envs \in PlainEnvs :
             WorkerStep(k, reply, envs)

WorkerSpec == WorkerInit /\ [][WorkerNext]_vars

\* an approved document of a doctype
Approved(doctype) ==
    [Draft(doctype) EXCEPT !.docstatus = 1, ![StatusField(doctype)] = "Approved"]

\* the snapshots of the approved documents with one key absent
PartialSnapshots ==
    {[DocInfo(Approved(dt)) EXCEPT ![k] = Missing] : dt \in Doctypes, k \in SnapshotKeys}

\* the log store fails at any step of the first call of create_log, with or
\* without frappe.log_error
FirstCallEnvs == {<<e, StoreAccepts>> : e \in LogEnvironments}

\* the worker alone: send_request on a dict that lacks a key
DictNext ==
    \/ /\ nInvocations < MaxInvocations
       /\ \E doc_info \in PartialSnapshots, envs \in FirstCallEnvs :
             InvokeSendRequest(doc_info, SettingsInfo(settings), envs)
    \/ \E k \in 1..Len(running) :
          \E reply \in RepliesTo(running[k]), envs \in FirstCallEnvs :
             WorkerStep(k, reply, envs)

DictSpec == WorkerInit /\ [][DictNext]_vars

\* the log store fails at any step of either call of create_log; the second
\* call is made only when frappe.log_error raises in the first
StoreEnvs ==
    FirstCallEnvs
    \cup {<<e1, e2>> : e1 \in {e \in LogEnvironments : e.log_error},
                       e2 \in LogEnvironments}

\* the worker alone: send_request on the snapshot of an approved document,
\* whatever the log store does
StoreNext ==
    \/ /\ nInvocations < MaxInvocations
       /\ \E dt \in Doctypes :
             InvokeSendRequest(DocInfo(Approved(dt)), SettingsInfo(settings),
                               <<StoreAccepts, StoreAccepts>>)
    \/ \E k \in 1..Len(running) :
          \E reply \in RepliesTo(running[k]), envs \in StoreEnvs :
             WorkerStep(k, reply, envs)

StoreSpec == WorkerInit /\ [][StoreNext]_vars

\* the snapshots of two successive transitions of one document
Transitions(doctype) ==
    {DocInfo([Approved(doctype) EXCEPT ![StatusField(doctype)] = st]) : st \in {"Approved", "Rejected"}}

\* workers side by side: calls of send_request that overlap, each blocked in
\* requests.post until its answer is there
ConcurrentNext ==
    \/ /\ nInvocations < MaxWorkers
       /\ \E doc_info \in Transitions("Attendance Request") :
             InvokeSendRequest(doc_info, SettingsInfo(settings),
                               <<StoreAccepts, StoreAccepts>>)
    \/ \E k \in 1..Len(running) :
          \E reply \in RepliesTo(running[k]), envs \in PlainEnvs :
             WorkerStep(k, reply, envs)

ConcurrentSpec == WorkerInit /\ [][ConcurrentNext]_vars

\* two calls overlapped: both POSTs are made, the second is answered and
\* logged while the first still waits for its answer
SecondLoggedFirst ==
    /\ Len(posts) = 2 /\ Len(running) = 1 /\ Len(webhookLog) = 1
    /\ running[1].doc_info.status = posts[1].data.object.status[2]
    /\ webhookLog[1].request_payload.object = posts[2].data.object
    /\ posts[1].data.object /= posts[2].data.object

----------------------------------------------------------------------------
(* Vocabulary of the properties *)

Kinds == {"Attendance Request", "Leave Application", "Expense Claim"}

Terminal == {"Approved", "Rejected"}

\* the status attribute that decides a kind
RelevantAttribute(kind) == IF kind = "Expense Claim" THEN "approval_status" ELSE "status"

\* this step is a save of the document
SaveStep == nSaves' = nSaves + 1

\* this save changed the relevant status attribute of the stored document to
\* Approved or Rejected
BecameTerminal ==
    /\ doc'[RelevantAttribute(doc'.doctype)] \in Terminal
    /\ isNew \/ doc'[RelevantAttribute(doc'.doctype)] /= doc[RelevantAttribute(doc.doctype)]

\* no step of the trigger raised during this save
NoFault == lastSave'.fault = None

\* this save made exactly one enqueue call, which went through
EnqueuedOne ==
    /\ Len(queue') = Len(queue) + 1
    /\ SubSeq(queue', 1, Len(queue)) = queue

\* the snapshot of the fields the stored document now has
SnapshotOf(d) ==
    [doctype |-> d.doctype, name |-> d.name, status |-> d.status,
     approval_status |-> d.approval_status, employee |-> d.employee,
     title |-> d.title, from_date |-> d.from_date, explanation |-> d.explanation]

----------------------------------------------------------------------------
(* C1 *)

\* C1 as stated: with webhooks enabled and no step failing, every save of an
\* Attendance Request, Leave Application or Expense Claim in which the relevant
\* status attribute changes to Approved or Rejected enqueues a delivery.
C1_EverySaveThatBecomesTerminalEnqueues ==
    [][ (SaveStep /\ doc.doctype \in Kinds /\ settings.enable_webhooks /\ NoFault
           /\ BecameTerminal)
        => EnqueuedOne ]_vars

\* C1, amended: with webhooks enabled and no step failing, every save of a
\* document of the three kinds that is not new, is submitted (docstatus 1) and
\* has its prior snapshot available, in which the relevant status attribute
\* changes to Approved or Rejected, enqueues a delivery.
C1_SubmittedSaveThatBecomesTerminalEnqueues ==
    [][ (SaveStep /\ doc.doctype \in Kinds /\ settings.enable_webhooks /\ NoFault
           /\ ~isNew /\ doc'.docstatus = 1 /\ lastSave'.old_available
           /\ BecameTerminal)
        => Len(queue') = Len(queue) + 1 ]_vars

\* a submitted document of the three kinds has just become Approved or
\* Rejected and its delivery is the last job of the queue
C1_Witness ==
    /\ nSaves = 1 /\ lastSave.old_available /\ lastSave.fault = None
    /\ doc.doctype \in Kinds /\ doc.docstatus = 1
    /\ doc[RelevantAttribute(doc.doctype)] \in Terminal
    /\ queue /= <<>>
    /\ queue[Len(queue)].doc_info.name = doc.name
    /\ lastRun.called = FALSE

----------------------------------------------------------------------------
(* C2 *)

\* C2: a save of a document that is not new, is submitted and has a prior
\* snapshot, with webhooks enabled and no step failing, whose relevant status
\* differs from the prior value and is Approved or Rejected, makes exactly one
\* enqueue call; the job carries the document's current doctype, name, status,
\* approval_status, employee, title, from_date and explanation, and the URL
\* and secret of the settings.
C2_OneEnqueueWithSnapshotAndSettings ==
    [][ (SaveStep /\ doc.doctype \in Kinds /\ settings.enable_webhooks /\ NoFault
           /\ ~isNew /\ doc'.docstatus = 1 /\ lastSave'.old_available
           /\ BecameTerminal)
        => /\ EnqueuedOne
           /\ queue'[Len(queue')].doc_info = SnapshotOf(doc')
           /\ queue'[Len(queue')].settings_info =
                [url |-> settings.webhook_url, secret |-> settings.webhook_secret] ]_vars

\* the last job of the queue carries the snapshot of an Expense Claim that has
\* just been decided, with the settings in force
C2_Witness ==
    /\ nSaves = 1 /\ lastSave.old_available /\ lastSave.fault = None
    /\ doc.doctype = "Expense Claim" /\ doc.docstatus = 1
    /\ doc.approval_status \in Terminal
    /\ queue /= <<>>
    /\ queue[Len(queue)].doc_info = SnapshotOf(doc)
    /\ queue[Len(queue)].settings_info.url = settings.webhook_url

----------------------------------------------------------------------------
(* C3 *)

\* C3: every enqueue is made by a save of its own in which the relevant status
\* attribute changed to Approved or Rejected, and that save enqueues once; so
\* over any sequence of saves the dispatches never outnumber those saves, and a
\* save that leaves an Approved or Rejected status as it was enqueues nothing.
C3_EnqueueOnlyOnActualChange ==
    [][ /\ Len(queue') > Len(queue)
           => /\ SaveStep
              /\ Len(queue') = Len(queue) + 1
              /\ ~isNew
              /\ doc'[RelevantAttribute(doc'.doctype)] \in Terminal
              /\ doc'[RelevantAttribute(doc'.doctype)] /= doc[RelevantAttribute(doc.doctype)]
        /\ (SaveStep /\ ~isNew
              /\ doc'[RelevantAttribute(doc'.doctype)] = doc[RelevantAttribute(doc.doctype)])
           => queue' = queue ]_vars

\* after two saves the one queued delivery carries the document's Approved or
\* Rejected status but not its other status field: the first save enqueued
\* it, and the second, which reached the comparison and left the relevant
\* status as it was, enqueued nothing
C3_Witness ==
    /\ nSaves = 2
    /\ doc.doctype \in Kinds /\ doc.docstatus = 1
    /\ doc[RelevantAttribute(doc.doctype)] \in Terminal
    /\ lastSave.old_available /\ lastSave.fault = None
    /\ settings.enable_webhooks
    /\ Len(queue) = 1
    /\ queue[1].doc_info[RelevantAttribute(doc.doctype)] = doc[RelevantAttribute(doc.doctype)]
    /\ queue[1].doc_info /= SnapshotOf(doc)
    /\ lastRun.called = FALSE

----------------------------------------------------------------------------
(* C4 *)

\* C4: while the enable flag is off, no save of any document enqueues
\* anything, and unless a step of the trigger raised the save writes no
\* error-log record either.
C4_DisabledIsSilent ==
    [][ (SaveStep /\ ~settings.enable_webhooks)
        => /\ queue' = queue
           /\ NoFault => errorLog' = errorLog ]_vars

\* with the flag off, a submitted document has become Approved or Rejected
\* and nothing was enqueued or logged
C4_Witness ==
    /\ ~settings.enable_webhooks
    /\ nSaves = 1 /\ lastSave.old_available /\ lastSave.fault = None
    /\ doc.doctype \in Kinds /\ doc.docstatus = 1
    /\ doc[RelevantAttribute(doc.doctype)] \in Terminal
    /\ queue = <<>> /\ errorLog = <<>> /\ lastRun.called = FALSE

----------------------------------------------------------------------------
(* Vocabulary of the properties of the worker *)

\* the last run of send_request wrote an entry of this status
Wrote(status) ==
    \E i \in 1..Len(lastRun.out.entries) : lastRun.out.entries[i].status = status

\* the JSON value of a snapshot value
JsonOf(v) == IF v = None THEN <<"null">> ELSE <<"string", v>>

\* the keys of the payload of a kind
PayloadKeys(kind) ==
    CASE kind = "Attendance Request" ->
           {"doctype", "employee", "status", "from_date", "explanation"}
      [] kind = "Leave Application" -> {"doctype", "employee", "status"}
      [] kind = "Expense Claim" -> {"doctype", "employee", "approval_status", "title"}

\* the object whose keys are those of the kind and whose values are the snapshot's
Projection(doc_info) ==
    [k \in PayloadKeys(doc_info.doctype) |-> JsonOf(doc_info[k])]

----------------------------------------------------------------------------
(* C5 *)

\* C5: running a job that the trigger enqueued for a qualifying transition
\* performs exactly one HTTP POST and writes exactly one Webhook Log Entry: a
\* Success entry with the sent payload and the response body when the endpoint
\* answers 2xx, an Error entry with the attempted payload and a non-empty trace
\* when it answers 500 (the log store accepting the record).
C5_EnqueuedJobIsDeliveredAndLogged ==
    (lastRun.called /\ lastRun.via = "queue" /\ (lastRun.loaded => lastRun.store_ok))
    => /\ lastRun.loaded
       /\ Len(lastRun.out.posts) = 1
       /\ Len(lastRun.out.entries) = 1
       /\ lastRun.out.entries[1].request_payload.object = lastRun.out.posts[1].data.object
       /\ (lastRun.reply.status_code \in 200..299)
            => /\ lastRun.out.entries[1].status = "Success"
               /\ lastRun.out.entries[1].response = lastRun.reply.text
       /\ (lastRun.reply.status_code = 500)
            => /\ lastRun.out.entries[1].status = "Error"
               /\ lastRun.out.entries[1].error_traceback /= ""

----------------------------------------------------------------------------
(* C6 *)

\* C6 as stated: every call of send_request on a snapshot of one of the three
\* kinds ends with exactly one Webhook Log Entry written, whatever the
\* snapshot's fields and whatever the endpoint does (the log store accepting
\* the record); the calls that end without an entry are those of another kind.
C6_SupportedKindAlwaysLogsOnce ==
    (lastRun.called /\ lastRun.loaded /\ lastRun.store_ok)
    => /\ lastRun.doc_info.doctype \in Kinds => Len(lastRun.out.entries) = 1
       /\ lastRun.out.entries = <<>> => lastRun.doc_info.doctype \notin Kinds

\* the status check of the worker: status, or approval_status when status is
\* empty, is Approved or Rejected
PassesStatusCheck(doc_info) ==
    IF doc_info.status \notin {None, ""}
    THEN doc_info.status \in Terminal
    ELSE doc_info.approval_status \in Terminal

\* C6, amended: every call of send_request on a snapshot of one of the three
\* kinds that passes the worker's status check ends with exactly one Webhook
\* Log Entry written, whatever the endpoint does (the log store accepting the
\* record); the calls that end without an entry are those of another kind and
\* those that fail the status check; no call writes more than one entry.
C6_CheckedSupportedKindLogsOnce ==
    (lastRun.called /\ lastRun.loaded /\ lastRun.store_ok)
    => /\ Len(lastRun.out.entries) <= 1
       /\ Len(lastRun.out.entries) = 1
            <=> (lastRun.doc_info.doctype \in Kinds /\ PassesStatusCheck(lastRun.doc_info))

\* the endpoint timed out on the POST for a Leave Application, and the one
\* entry of the log is the Error entry of that call
C6_Witness ==
    /\ lastRun.called /\ lastRun.store_ok
    /\ lastRun.doc_info.doctype = "Leave Application"
    /\ lastRun.reply.exc = "Timeout"
    /\ Len(webhookLog) = 1 /\ webhookLog[1].status = "Error"
    /\ webhookLog[1].reference_name = lastRun.doc_info.name

----------------------------------------------------------------------------
(* C7 *)

\* C7: for every response of the endpoint (the log store accepting
\* the record), send_request writes a Success entry if and only if the status is
\* 2xx, and an Error entry and no Success entry for every other status.
C7_SuccessIffStatus2xx ==
    (lastRun.called /\ lastRun.out.posts /= <<>> /\ lastRun.reply.exc = None
       /\ lastRun.store_ok)
    => /\ Wrote("Success") <=> lastRun.reply.status_code \in 200..299
       /\ lastRun.reply.status_code \notin 200..299 => Wrote("Error")

----------------------------------------------------------------------------
(* C8 *)

\* C8: whenever send_request POSTs for a snapshot of the three kinds, the
\* object in the body and the object recorded in the log entry are the same;
\* its keys are those of the kind and each value is the snapshot's value for
\* the key; the x-webhook-secret header carries the secret of the job's
\* settings, and the request goes to the job's URL.
C8_PayloadIsProjectionOfSnapshot ==
    (lastRun.called /\ lastRun.out.posts /= <<>> /\ lastRun.doc_info.doctype \in Kinds)
    => /\ Len(lastRun.out.posts) = 1
       /\ lastRun.out.posts[1].data.object = Projection(lastRun.doc_info)
       /\ \A i \in 1..Len(lastRun.out.entries) :
             lastRun.out.entries[i].request_payload.object = Projection(lastRun.doc_info)
       /\ lastRun.out.posts[1].headers["x-webhook-secret"] = lastRun.settings_info.secret
       /\ lastRun.out.posts[1].headers["Content-Type"] = "application/json"
       /\ lastRun.out.posts[1].url = lastRun.settings_info.url

\* an Expense Claim whose two status fields differ has been POSTed and logged
C8_Witness ==
    /\ lastRun.called
    /\ lastRun.doc_info.doctype = "Expense Claim"
    /\ lastRun.doc_info.status = "Rejected" /\ lastRun.doc_info.approval_status = "Approved"
    /\ Len(lastRun.out.posts) = 1 /\ Len(lastRun.out.entries) = 1
    /\ lastRun.out.posts[1].data.object["approval_status"] = <<"string", "Approved">>

----------------------------------------------------------------------------
(* C9 *)

\* C9: a call of send_request with a snapshot of a kind other than the three
\* makes no HTTP call and writes neither a Webhook Log Entry nor an error-log
\* record, whatever the status values of the snapshot.
C9_OtherKindDoesNothing ==
    (lastRun.called /\ lastRun.loaded /\ lastRun.doc_info.doctype \notin Kinds)
    => /\ lastRun.out.posts = <<>>
       /\ lastRun.out.entries = <<>>
       /\ lastRun.out.errors = <<>>
       /\ ~lastRun.out.raised

\* send_request has run on an Approved snapshot of another kind, and the logs
\* are empty
C9_Witness ==
    /\ lastRun.called /\ lastRun.loaded
    /\ lastRun.doc_info.doctype = "Shift Request"
    /\ lastRun.doc_info.status = "Approved"
    /\ posts = <<>> /\ webhookLog = <<>> /\ errorLog = <<>>

----------------------------------------------------------------------------
(* C10 *)

\* C10: when a step of trigger_webhook_for_doc raises during a save, the
\* trigger returns normally, the save goes through, and exactly one record,
\* titled "GOG Webhook Enqueue Failed", is added to the error log.
C10_FailureIsLoggedNotRaised ==
    [][ (SaveStep /\ lastSave'.fault /= None)
        => /\ ~lastSave'.raised
           /\ ~isNew'
           /\ Len(errorLog') = Len(errorLog) + 1
           /\ SubSeq(errorLog', 1, Len(errorLog)) = errorLog
           /\ errorLog'[Len(errorLog')] = "GOG Webhook Enqueue Failed"
           /\ queue' = queue ]_vars

----------------------------------------------------------------------------
(* C11 *)

\* the last run of send_request wrote nothing but one Error entry, which
\* holds the object of these keys of the snapshot and a trace that is not empty
OneErrorEntryOf(keys) ==
    /\ Len(lastRun.out.entries) = 1
    /\ lastRun.out.entries[1].status = "Error"
    /\ lastRun.out.entries[1].request_payload.object
         = [k \in keys |-> JsonOf(lastRun.doc_info[k])]
    /\ lastRun.out.entries[1].error_traceback /= ""

\* the dict of the last run has a terminal status and lacks a key that the
\* building of the payload reads
KeyMissingForPayload ==
    /\ DocStatusOf(lastRun.doc_info) \in Terminal
    /\ \/ lastRun.doc_info.employee = Missing
       \/ \E k \in UpdateKeys(lastRun.doc_info.doctype) : lastRun.doc_info[k] = Missing

\* the keys of the payload that was built when the last run stopped
KeysBuilt ==
    IF lastRun.doc_info.employee = Missing THEN {}
    ELSE IF \E k \in UpdateKeys(lastRun.doc_info.doctype) : lastRun.doc_info[k] = Missing
         THEN {"doctype", "employee"}
    ELSE PayloadKeys(lastRun.doc_info.doctype)

\* C11: every call of send_request makes at most one POST and
\* returns without raising; when the POST fails (exception, or a status that
\* is not 2xx) or a key is missing before the payload is built, it has written
\* one Error entry with the payload built so far and a non-empty trace (the
\* log store accepting the record).
C11_AnyFailureIsLoggedNotRaised ==
    (lastRun.called /\ lastRun.loaded /\ lastRun.store_ok)
    => /\ Len(lastRun.out.posts) <= 1
       /\ ~lastRun.out.raised
       /\ ( \/ /\ lastRun.out.posts /= <<>>
               /\ \/ lastRun.reply.exc /= None
                  \/ lastRun.reply.status_code \notin 200..299
            \/ ~HasKeys(lastRun.doc_info, {"doctype", "name"})
            \/ KeyMissingForPayload )
          => OneErrorEntryOf(KeysBuilt)

----------------------------------------------------------------------------
(* C12 *)

\* C12: whatever snapshot send_request is handed, it makes a POST only when
\* the relevant status attribute of the snapshot's kind (approval_status for
\* an Expense Claim, status for the others) is Approved or Rejected, and the
\* payload it posts carries Approved or Rejected under that attribute.
C12_PostOnlyWhenRelevantStatusTerminal ==
    (lastRun.called /\ lastRun.loaded /\ lastRun.out.posts /= <<>>)
    => /\ lastRun.doc_info[RelevantAttribute(lastRun.doc_info.doctype)] \in Terminal
       /\ lastRun.out.posts[1].data.object[RelevantAttribute(lastRun.doc_info.doctype)]
            \in {JsonOf(v) : v \in Terminal}

----------------------------------------------------------------------------
(* C13 *)

\* this step ends the run of call k, a job that a worker took off the queue
JobEnds(k) ==
    /\ running[k].via = "queue"
    /\ Len(running') < Len(running)
    /\ running' = SubSeq(running, 1, k - 1) \o SubSeq(running, k + 1, Len(running))

\* C13: a job the trigger enqueues holds the URL and the secret the settings
\* have at that save; a later change of the settings leaves the jobs queued
\* and taken as they are; and when the run of a job ends, it has made a POST
\* to the job's URL with the job's secret, whatever the settings are by then.
C13_JobPostsToSettingsOfItsSave ==
    [][ /\ (SaveStep /\ Len(queue') = Len(queue) + 1)
            => queue'[Len(queue')].settings_info
                 = [url |-> settings.webhook_url, secret |-> settings.webhook_secret]
        /\ settings' /= settings => (queue' = queue /\ running' = running)
        /\ \A k \in 1..Len(running) :
              JobEnds(k)
              => /\ lastRun'.loaded
                 /\ Len(lastRun'.out.posts) = 1
                 /\ lastRun'.out.posts[1].url = running[k].settings_info.url
                 /\ lastRun'.out.posts[1].headers["x-webhook-secret"]
                      = running[k].settings_info.secret ]_vars

----------------------------------------------------------------------------
(* C14 *)

\* C14: a save that enqueues appends one job with the snapshot of that save
\* and leaves the jobs already queued as they are; a worker may take any job
\* of the queue; and when the run of a job ends, it has made one POST with the
\* payload of that job's snapshot and written one log entry for it (the log
\* store accepting the record), and has left every other job and entry as it
\* was.
C14_EachJobSendsItsOwnSnapshot ==
    [][ /\ (SaveStep /\ Len(queue') > Len(queue))
            => /\ EnqueuedOne
               /\ queue'[Len(queue')].doc_info = SnapshotOf(doc')
        /\ \A k \in 1..Len(running) :
              (JobEnds(k) /\ (lastRun'.loaded => lastRun'.store_ok))
              => /\ lastRun'.loaded
                 /\ Len(lastRun'.out.posts) = 1
                 /\ lastRun'.out.posts[1].data.object = Projection(running[k].doc_info)
                 /\ queue' = queue
                 /\ Len(webhookLog') = Len(webhookLog) + 1
                 /\ SubSeq(webhookLog', 1, Len(webhookLog)) = webhookLog
                 /\ webhookLog'[Len(webhookLog')].reference_name = running[k].doc_info.name
                 /\ webhookLog'[Len(webhookLog')].request_payload.object
                      = Projection(running[k].doc_info) ]_vars

----------------------------------------------------------------------------
(* C15 *)

\* C15: whether a save enqueues depends only on the prior and the new value of
\* the kind's own status attribute (approval_status for an Expense Claim,
\* status for an Attendance Request or a Leave Application): no save enqueues
\* unless that attribute changed to Approved or Rejected, whatever happened to
\* the other status attribute; and a save of a document that is not new, is
\* submitted and has a prior snapshot, with webhooks enabled and no step
\* failing, enqueues exactly when that attribute changed to Approved or
\* Rejected.
C15_DecisionLooksOnlyAtOwnStatusAttribute ==
    [][ (SaveStep /\ doc.doctype \in Kinds)
        => /\ Len(queue') > Len(queue)
                => /\ doc'[RelevantAttribute(doc.doctype)] /= doc[RelevantAttribute(doc.doctype)]
                   /\ doc'[RelevantAttribute(doc.doctype)] \in Terminal
           /\ (NoFault /\ settings.enable_webhooks /\ ~isNew /\ doc'.docstatus = 1
                 /\ lastSave'.old_available)
                => (Len(queue') > Len(queue)
                      <=> /\ doc'[RelevantAttribute(doc.doctype)]
                               /= doc[RelevantAttribute(doc.doctype)]
                          /\ doc'[RelevantAttribute(doc.doctype)] \in Terminal) ]_vars

\* the one save of a submitted Expense Claim changed its generic status to
\* Rejected and left approval_status at Draft, and nothing was enqueued
C15_Witness ==
    /\ nSaves = 1 /\ lastSave.old_available /\ lastSave.fault = None
    /\ settings.enable_webhooks
    /\ doc.doctype = "Expense Claim" /\ doc.docstatus = 1
    /\ doc.status = "Rejected" /\ doc.approval_status = "Draft"
    /\ queue = <<>> /\ ~lastRun.called /\ errorLog = <<>>

----------------------------------------------------------------------------
(* C16 *)

\* C16: when new_doc, save or commit fails in the create_log call of a call
\* of send_request that made its POST, the call still returns without
\* raising, exactly one record, titled "Failed to Create GOG Webhook Log",
\* goes to the error log, and no Error entry is written for a delivery that
\* succeeded.
C16_LogFailureGoesToErrorLogOnly ==
    (lastRun.called /\ lastRun.loaded /\ lastRun.out.posts /= <<>>
       /\ lastRun.envs[1].fault /= None)
    => /\ ~lastRun.out.raised
       /\ lastRun.out.errors = <<"Failed to Create GOG Webhook Log">>
       /\ (lastRun.reply.exc = None /\ lastRun.reply.status_code \in 200..299)
            => ~Wrote("Error")

----------------------------------------------------------------------------
(* C17 *)

\* this save is a detection skip: the document is new, or is not submitted,
\* or has no prior snapshot, or its status field did not change to Approved or
\* Rejected
DetectionSkip ==
    \/ isNew
    \/ doc'.docstatus /= 1
    \/ ~lastSave'.old_available
    \/ ~ /\ doc'[RelevantAttribute(doc.doctype)] /= doc[RelevantAttribute(doc.doctype)]
         /\ doc'[RelevantAttribute(doc.doctype)] \in Terminal

\* C17: a save of a document of the three kinds, whatever path the trigger
\* takes, makes no POST, writes no Webhook Log Entry and leaves the settings as
\* they are; when the save is a detection skip and no step of the trigger
\* raises, it also enqueues nothing, writes nothing to the error log and does
\* not read the settings.
C17_TriggerEffectFrame ==
    [][ (SaveStep /\ doc.doctype \in Kinds)
        => /\ posts' = posts
           /\ webhookLog' = webhookLog
           /\ settings' = settings
           /\ (NoFault /\ DetectionSkip)
                => /\ queue' = queue
                   /\ errorLog' = errorLog
                   /\ ~lastSave'.read_settings ]_vars

\* the one save cancelled a document (docstatus 2) while its status field
\* became Approved or Rejected: nothing is enqueued or logged, and the
\* settings were not read
C17_Witness ==
    /\ nSaves = 1 /\ lastSave.old_available /\ lastSave.fault = None
    /\ ~lastSave.read_settings
    /\ settings.enable_webhooks
    /\ doc.doctype \in Kinds /\ doc.docstatus = 2
    /\ doc[RelevantAttribute(doc.doctype)] \in Terminal
    /\ queue = <<>> /\ errorLog = <<>> /\ posts = <<>> /\ webhookLog = <<>>

----------------------------------------------------------------------------
(* C18 *)

\* the module of a dotted path: all of it but the last name
ModuleOf(path) == SubSeq(path, 1, Len(path) - 1)

\* C18: the method of every queued job names send_request in the module under
\* which doc_events registers trigger_webhook_for_doc for the job's doctype,
\* the worker can load it, and every job taken off the queue has been loaded
\* and run.
C18_EnqueuedMethodIsSendRequestOfHandlerModule ==
    /\ \A i \in 1..Len(queue) :
          /\ queue[i].method[Len(queue[i].method)] = "send_request"
          /\ ModuleOf(queue[i].method) = ModuleOf(doc_events(queue[i].doc_info.doctype))
          /\ Resolves(queue[i].method)
    /\ (lastRun.called /\ lastRun.via = "queue") => lastRun.loaded

====
